---------------------------- MODULE Spec2Model ----------------------------
(***************************************************************************)
(* A model of the train-departures proxy (src/src/index.ts): the single   *)
(* route GET /departures/:stationCode, its API-key gate, its three        *)
(* upstream lookups and the TTL cache that memoizes them.                  *)
(*                                                                         *)
(* JavaScript runs one macrotask at a time, so a handler runs atomically   *)
(* from one pending upstream call to the next: every action below is one   *)
(* such run (the arrival of a request, or the arrival of one upstream      *)
(* answer) and includes every cache read and write the code performs in    *)
(* it.  Strings the code computes on are sequences of one-character        *)
(* strings; JSON values of unknown shape are tagged records [type, val].   *)
(***************************************************************************)
EXTENDS Integers, Sequences, FiniteSets, TLC

VARIABLES env, now, cache, reqs, sent, lastAnswer, lastWrite

vars == <<env, now, cache, reqs, sent, lastAnswer, lastWrite>>

-----------------------------------------------------------------------------
(* Bounds of the model *)

\* number of requests that can be in flight at once
MaxReq == 2
\* longest train list the upstream returns
MaxTrains == 2
\* largest delay (in minutes, early or late) of the delay boards
MaxDelay == 12
\* the clock stops at this instant (milliseconds since the epoch)
MaxNow == 86460001

-----------------------------------------------------------------------------
(* JavaScript values and strings *)

Str(s) == [type |-> "string", val |-> s]
Num(n) == [type |-> "number", val |-> n]
Undefined == [type |-> "undefined", val |-> 0]
Obj == [type |-> "object", val |-> 0]

\* JavaScript truthiness of a tagged value
Truthy(v) ==
    CASE v.type = "string" -> v.val # <<>>
      [] v.type = "number" -> v.val # 0
      [] v.type = "undefined" -> FALSE
      [] OTHER -> TRUE

Min(a, b) == IF a < b THEN a ELSE b

Digit(d) == <<"0", "1", "2", "3", "4", "5", "6", "7", "8", "9">>[d + 1]

RECURSIVE ToDecimal(_)
\* the decimal digits of a natural number
ToDecimal(n) ==
    IF n < 10 THEN <<Digit(n)>>
    ELSE ToDecimal(n \div 10) \o <<Digit(n % 10)>>

\* Number.prototype.toString / template interpolation of an integer
NumberToString(n) ==
    IF n < 0 THEN <<"-">> \o ToDecimal(-n) ELSE ToDecimal(n)

\* does pat occur in s at position i
MatchesAt(s, pat, i) ==
    /\ i + Len(pat) - 1 <= Len(s)
    /\ \A j \in 1..Len(pat) : s[i + j - 1] = pat[j]

\* String.prototype.replace with a string pattern: the first occurrence only
ReplaceFirst(s, pat, rep) ==
    LET hits == {i \in 1..Len(s) : MatchesAt(s, pat, i)}
    IN  IF hits = {} THEN s
        ELSE LET i == CHOOSE k \in hits : \A m \in hits : k <= m
             IN  SubSeq(s, 1, i - 1) \o rep \o SubSeq(s, i + Len(pat), Len(s))

\* s.split(' ')[0]: the text before the first space (all of it if none)
FirstToken(s) ==
    LET sp == {i \in 1..Len(s) : s[i] = " "}
    IN  IF sp = {} THEN s
        ELSE SubSeq(s, 1, (CHOOSE k \in sp : \A m \in sp : k <= m) - 1)

-----------------------------------------------------------------------------
(* Formatter *)

\* Europe/Rome is UTC+1 at every instant of the model (January 1970)
RomeOffsetMs == 3600000

TwoDigits(n) == <<Digit(n \div 10), Digit(n % 10)>>

formatTime(timestamp, includeSeconds) ==
    LET local == timestamp + RomeOffsetMs
        hh == (local \div 3600000) % 24
        mm == (local \div 60000) % 60
        ss == (local \div 1000) % 60
    IN  TwoDigits(hh) \o <<":">> \o TwoDigits(mm)
          \o (IF includeSeconds THEN <<":">> \o TwoDigits(ss) ELSE <<>>)

\* a faulty delay text that gives the sign `+` to strictly positive delays only
formatDelay_StrictlyPositive(ritardo) ==
    IF ritardo > 0 THEN <<"+">> \o NumberToString(ritardo)
    ELSE NumberToString(ritardo)

\* (train.ritardo >= 0 ? `+${train.ritardo}` : train.ritardo).toString()
formatDelay(ritardo) ==
    IF ritardo >= 0 THEN <<"+">> \o NumberToString(ritardo)
    ELSE NumberToString(ritardo)

\* lodash round(temp, 1), temp in hundredths of a degree, result in tenths
round1(hundredths) == (hundredths + 5) \div 10

\* the text of a number given in tenths ("21.5", "21", "-0.3", "0")
TenthsToString(t) ==
    LET a == IF t < 0 THEN -t ELSE t
        body == ToDecimal(a \div 10)
                  \o (IF a % 10 = 0 THEN <<>> ELSE <<".", Digit(a % 10)>>)
    IN  IF t < 0 THEN <<"-">> \o body ELSE body

\* `${round(temp, 1)}°C`.replace('.', ',')
formatTemperature(hundredths) ==
    ReplaceFirst(TenthsToString(round1(hundredths)) \o <<"°", "C">>,
                 <<".">>, <<",">>)

\* the map callback of the handler: one raw train to one Departure
formatTrain(train) ==
    [type |-> ReplaceFirst(train.compNumeroTreno.val,
                           <<"R", "E", "G">>, <<"R">>),
     destination |-> FirstToken(train.destinazione.val),
     departureTime |-> formatTime(train.orarioPartenza, FALSE),
     delay |-> formatDelay(train.ritardo)]

\* the callback throws a TypeError on a record without its text fields
MapThrows(rawTrains) ==
    \E i \in 1..Len(rawTrains) :
        \/ rawTrains[i].compNumeroTreno.type # "string"
        \/ rawTrains[i].destinazione.type # "string"

simplify(rawTrains) == [i \in 1..Len(rawTrains) |-> formatTrain(rawTrains[i])]

\* a faulty take that drops the last entry it should keep
take_Short(array, n) ==
    LET end == IF n < 0 THEN 0 ELSE IF n > Len(array) THEN Len(array) ELSE n
    IN  [i \in 1..(IF end > 0 THEN end - 1 ELSE 0) |-> array[i]]

\* lodash take(array, n)
take(array, n) ==
    LET end == IF n < 0 THEN 0 ELSE IF n > Len(array) THEN Len(array) ELSE n
    IN  [i \in 1..end |-> array[i]]


-----------------------------------------------------------------------------
(* Request validation *)

\* lodash MAX_INTEGER (1.7976931348623157e+308) stands as the largest integer
\* of the model: it exceeds every list length
MAX_INTEGER == 2147483647

IsDigit(c) == c \in {"0", "1", "2", "3", "4", "5", "6", "7", "8", "9"}

DigitValue(c) == CHOOSE d \in 0..9 : Digit(d) = c

RECURSIVE DigitsValue(_)
DigitsValue(s) ==
    IF s = <<>> THEN 0
    ELSE 10 * DigitsValue(SubSeq(s, 1, Len(s) - 1)) + DigitValue(s[Len(s)])

\* Number(string) on the texts [+-]digits[.digits], [+-]Infinity and "":
\* kind "finite" carries the integer part (the fraction is cut by toInteger),
\* any other text is NaN
ParseNumber(s) ==
    LET signed == s # <<>> /\ s[1] \in {"-", "+"}
        sign == IF s # <<>> /\ s[1] = "-" THEN -1 ELSE 1
        u == IF signed THEN SubSeq(s, 2, Len(s)) ELSE s
        dots == {i \in 1..Len(u) : u[i] = "."}
        ip == IF dots = {} THEN u
              ELSE SubSeq(u, 1, (CHOOSE k \in dots : \A m \in dots : k <= m) - 1)
        fp == IF dots = {} THEN <<>>
              ELSE SubSeq(u, (CHOOSE k \in dots : \A m \in dots : k <= m) + 1, Len(u))
    IN  IF s = <<>> THEN [kind |-> "finite", sign |-> 1, int |-> 0]
        ELSE IF u = <<"I", "n", "f", "i", "n", "i", "t", "y">>
        THEN [kind |-> "inf", sign |-> sign, int |-> 0]
        ELSE IF /\ Cardinality(dots) <= 1
                /\ ip \o fp # <<>>
                /\ \A i \in 1..Len(ip) : IsDigit(ip[i])
                /\ \A i \in 1..Len(fp) : IsDigit(fp[i])
        THEN [kind |-> "finite", sign |-> sign, int |-> DigitsValue(ip)]
        ELSE [kind |-> "nan", sign |-> 1, int |-> 0]

\* lodash toInteger(value) for a query value (undefined or a string):
\* toNumber, then toFinite (NaN -> 0, +-Infinity -> +-MAX_INTEGER), then the
\* fraction is dropped
toInteger(value) ==
    IF value.type # "string" THEN 0
    ELSE LET p == ParseNumber(value.val)
         IN  CASE p.kind = "nan" -> 0
               [] p.kind = "inf" -> p.sign * MAX_INTEGER
               [] OTHER -> p.sign * p.int

\* Number.isFinite on a result of toInteger
NumberIsFinite(n) == n \in Int

isEmpty(s) == s = <<>>

\* limit && (!Number.isFinite(maxResults) || maxResults < 1)
LimitRejected(limit, maxResults) ==
    Truthy(limit) /\ (~NumberIsFinite(maxResults) \/ maxResults < 1)

\* a faulty gate that turns away only a request without a key
ApiKeyRejected_MissingOnly(apiKey, key) ==
    IF apiKey = "" THEN FALSE ELSE key.type = "undefined"

\* checkApiKey answers 401 (TRUE) or calls next() (FALSE)
ApiKeyRejected(apiKey, key) ==
    IF apiKey = "" THEN FALSE ELSE key # Str(apiKey)

-----------------------------------------------------------------------------
(* Cache layer: node-cache with its default options *)

DeparturesTTL == 60
StationNameTTL == 86400
WeatherTTL == 300

DeparturesKey(stationCode) ==
    <<"d", "e", "p", "a", "r", "t", "u", "r", "e", "s", "_">> \o stationCode

StationNameKey(stationCode) ==
    <<"s", "t", "a", "t", "i", "o", "n", "_", "n", "a", "m", "e", "_">>
      \o stationCode

WeatherKey(city) == <<"w", "e", "a", "t", "h", "e", "r", "_">> \o city

Bologna == <<"B", "o", "l", "o", "g", "n", "a">>

\* the period of node-cache's sweep of expired entries, in seconds
CheckPeriod == 600

\* a faulty expiry test under which no entry ever dies
Expired_Never(entry, t) == FALSE

\* an entry is dead once its expiry instant lies strictly in the past
Expired(entry, t) == entry.t < t

\* cache.get(key): the value of a live entry
CacheHas(c, key, t) == key \in DOMAIN c /\ ~Expired(c[key], t)

\* a faulty get that gives a live entry a new 60 s to live
CacheAfterGet_Touch(c, key, t) ==
    IF key \in DOMAIN c /\ ~Expired(c[key], t)
    THEN [c EXCEPT ![key] = [v |-> c[key].v, t |-> t + DeparturesTTL * 1000]]
    ELSE c

\* cache.get deletes the entry it finds expired
CacheAfterGet(c, key, t) ==
    IF key \in DOMAIN c /\ Expired(c[key], t)
    THEN [k \in DOMAIN c \ {key} |-> c[k]]
    ELSE c

\* a faulty set that keeps the entry a key already has
CacheSet_KeepFirst(c, key, value, ttl, t) ==
    [k \in DOMAIN c \cup {key} |->
        IF k \in DOMAIN c THEN c[k] ELSE [v |-> value, t |-> t + ttl * 1000]]

\* a faulty set that forgets the time to live: the entry dies at once
CacheSet_NoTTL(c, key, value, ttl, t) ==
    [k \in DOMAIN c \cup {key} |->
        IF k = key THEN [v |-> value, t |-> t] ELSE c[k]]

\* cache.set(key, value, ttl)
CacheSet(c, key, value, ttl, t) ==
    [k \in DOMAIN c \cup {key} |->
        IF k = key THEN [v |-> value, t |-> t + ttl * 1000] ELSE c[k]]


-----------------------------------------------------------------------------
(* The inputs of the model: requests, and what the upstreams answer *)

ReqIds == 1..MaxReq

StationCodes ==
    {<<"S", "0", "1", "7", "0", "0">>}

\* two stations, for what the cache shares between stations and what not
TwoStations ==
    {<<"S", "0", "1", "7", "0", "0">>, <<"S", "0", "5", "0", "4", "3">>}

LimitQueries ==
    {Undefined, Str(<<"a", "b", "c">>), Str(<<"0">>), Str(<<"-", "1">>),
     Str(<<"1">>), Str(<<"I", "n", "f", "i", "n", "i", "t", "y">>)}

KeyQueries == {Undefined, Str("secret"), Str("wrong")}

EnvChoices ==
    {[API_KEY |-> "", OPENWEATHER_API_KEY |-> "owkey"],
     [API_KEY |-> "secret", OPENWEATHER_API_KEY |-> "owkey"],
     [API_KEY |-> "secret", OPENWEATHER_API_KEY |-> ""]}

\* the instants the clock visits: around the 60 s TTL, at the first sweep
\* (the 300 s TTL has run out), and after the 24 h TTL
Instants ==
    {t \in {0, 59999, 60000, 60001, 600000, 86400001} : t <= MaxNow}

Train(numero, destinazione, orario, ritardo) ==
    [compNumeroTreno |-> numero, destinazione |-> destinazione,
     orarioPartenza |-> orario, ritardo |-> ritardo]

\* the station's timetable: the upstream lists its next departures
Timetable ==
    <<Train(Str(<<"R", "E", "G", " ", "2", "2">>),
            Str(<<"B", "O", "L", "O", "G", "N", "A", " ", "C", ".", "L", "E">>),
            27000000, 5),
      Train(Str(<<"F", "R", " ", "9", "5">>),
            Str(<<"M", "I", "L", "A", "N", "O">>), 30600000, -2),
      Train(Str(<<"I", "C", " ", "6", "0", "8">>),
            Str(<<"R", "O", "M", "A", " ", "T", "E", "R", "M", "I", "N", "I">>),
            32400000, 0)>>

\* a record without its text fields
MalformedTrain == Train(Undefined, Undefined, 0, 0)

\* the boards the upstream returns: the next k departures, k <= MaxTrains
Boards == {SubSeq(Timetable, 1, k) : k \in 0..MaxTrains}

\* the first train of the timetable, running with the given delay
Delayed(ritardo) ==
    Train(Timetable[1].compNumeroTreno, Timetable[1].destinazione,
          Timetable[1].orarioPartenza, ritardo)

\* boards for the delay text: one train with every delay up to MaxDelay
\* either way, and the board with the delays 5 and -2
DelayBoards ==
    {<<Delayed(d)>> : d \in (-MaxDelay)..MaxDelay}
      \cup {<<Delayed(5), Delayed(-2)>>}

Rejected == [ok |-> FALSE, data |-> Undefined]
Resolved(data) == [ok |-> TRUE, data |-> data]

Array(items) == [type |-> "array", val |-> items]
isArray(v) == v.type = "array"

\* axios.get(partenze): rejects, or resolves with a list, a list holding a
\* malformed record, or something that is no list
DeparturesAnswers ==
    {Rejected, Resolved(Obj), Resolved(Array(<<MalformedTrain>>))}
      \cup {Resolved(Array(q)) : q \in Boards}

\* axios.get(regione)
RegionAnswers == {Rejected, Resolved(Num(8)), Resolved(Str(<<>>)), Resolved(Obj)}

\* stationDetails?.localita?.nomeLungo of the station, as the upstream names it
NomeLungo(stationCode) ==
    IF stationCode[3] = "1"
    THEN <<"B", "O", "L", "O", "G", "N", "A", " ", "C", ".", "L", "E">>
    ELSE <<"M", "O", "D", "E", "N", "A">>

\* axios.get(dettaglioStazione), reduced to the nomeLungo it carries
DetailsAnswers(stationCode) ==
    {Rejected, Resolved(Undefined), Resolved(Num(7)),
     Resolved(Str(NomeLungo(stationCode)))}

WeatherData(temp, description) ==
    [type |-> "weather", val |-> [temp |-> temp, description |-> description]]

\* axios.get(openweathermap): rejects, resolves without `main`, or resolves
\* with a temperature (hundredths of a degree) and a description
WeatherAnswers ==
    {Rejected, Resolved(Obj),
     Resolved(WeatherData(2146, <<"s", "o", "l", "e">>))}


-----------------------------------------------------------------------------
(* The request handler *)

NoBody == [none |-> TRUE]
NoWeather == [temperature |-> <<>>, description |-> <<>>]
NoCached == [stationName |-> <<>>, weather |-> NoWeather, departures |-> <<>>]

\* A free request slot.  The fields are the request and the handler's
\* locals; four of them record what happened to the request: sawExpired (the
\* departures entry was found expired), departuresVia ("rejected", "nonarray",
\* "malformed" or "ok"), nameVia ("cache", "upstream" or "fallback") and
\* weatherVia ("cache", "upstream", "nokey" or "failed").
IdleReq ==
    [pc |-> "idle", stationCode |-> <<>>, limit |-> Undefined,
     key |-> Undefined, rawTrains |-> Undefined, stationName |-> <<>>,
     hit |-> FALSE, cachedDepartures |-> NoCached, sawExpired |-> FALSE,
     departuresVia |-> "none", nameVia |-> "none", weatherVia |-> "none",
     status |-> 0, bodyKind |-> "none", body |-> NoBody]

\* res.status(status).json(body)
Respond(req, status, bodyKind, body) ==
    [req EXCEPT !.pc = "done", !.status = status, !.bodyKind = bodyKind,
                !.body = body]

\* object spread: the properties of b override those of a
Merge(a, b) ==
    [k \in DOMAIN a \cup DOMAIN b |-> IF k \in DOMAIN b THEN b[k] ELSE a[k]]

\* { time: formatTime(Date.now(), true), ...response,
\*   departures: maxResults > 0 ? take(list, maxResults) : list }
ResponseBody(response, list, maxResults) ==
    Merge(Merge([time |-> formatTime(now, TRUE)], response),
          [departures |-> IF maxResults > 0 THEN take(list, maxResults)
                          ELSE list])

\* the outcome of one run of the handler: the request's new record, the new
\* cache, and whether the departures entry was written
Outcome(req, c, wrote) == [req |-> req, cache |-> c, wrote |-> wrote]

GenericError == [error |-> "Failed to fetch train data from the external API."]

\* a faulty catch block that caches an empty board before it answers
Fail500_CachesEmpty(req, c) ==
    Outcome(Respond(req, 500, "object", GenericError),
            [k \in DOMAIN c \cup {DeparturesKey(req.stationCode)} |->
               IF k = DeparturesKey(req.stationCode)
               THEN [v |-> [stationName |-> req.stationCode,
                            weather |-> NoWeather, departures |-> <<>>],
                     t |-> now + DeparturesTTL * 1000]
               ELSE c[k]],
            FALSE)

\* a faulty catch block that swallows the error and never answers
Fail500_Hangs(req, c) == Outcome([req EXCEPT !.pc = "hung"], c, FALSE)

\* the catch block of the handler
Fail500(req, c) == Outcome(Respond(req, 500, "object", GenericError), c, FALSE)

\* a faulty response object that carries the time it was built at
Assemble_WithTime(stationName, weather, simplifiedTrains) ==
    [time |-> formatTime(now, TRUE), stationName |-> stationName,
     weather |-> weather, departures |-> simplifiedTrains]

\* the object the handler caches: the response without its time
Assemble(stationName, weather, simplifiedTrains) ==
    [stationName |-> stationName, weather |-> weather,
     departures |-> simplifiedTrains]

\* a faulty Finish that caches the list as cut to the caller's limit
Finish_CachesSlice(req, weather, weatherVia, c) ==
    LET simplifiedTrains == simplify(req.rawTrains.val)
        maxResults == toInteger(req.limit)
        sent_list == IF maxResults > 0 THEN take(simplifiedTrains, maxResults)
                     ELSE simplifiedTrains
        response == Assemble(req.stationName, weather, sent_list)
        c2 == CacheSet(c, DeparturesKey(req.stationCode), response,
                       DeparturesTTL, now)
    IN  Outcome(Respond([req EXCEPT !.weatherVia = weatherVia], 200, "object",
                        ResponseBody(response, sent_list, maxResults)),
                c2, TRUE)

\* the response is assembled, cached for 60 s and sent, cut to the limit
Finish(req, weather, weatherVia, c) ==
    LET simplifiedTrains == simplify(req.rawTrains.val)
        response == Assemble(req.stationName, weather, simplifiedTrains)
        c2 == CacheSet(c, DeparturesKey(req.stationCode), response,
                       DeparturesTTL, now)
    IN  Outcome(Respond([req EXCEPT !.weatherVia = weatherVia], 200, "object",
                        ResponseBody(response, simplifiedTrains,
                                     toInteger(req.limit))),
                c2, TRUE)

\* getWeather('Bologna') up to its upstream call
StartWeather(req, c) ==
    LET key == WeatherKey(Bologna)
        c1 == CacheAfterGet(c, key, now)
    IN  IF CacheHas(c, key, now)
        THEN Finish(req, c[key].v, "cache", c1)
        ELSE IF env.OPENWEATHER_API_KEY = ""
        THEN Fail500([req EXCEPT !.weatherVia = "nokey"], c1)
        ELSE Outcome([req EXCEPT !.pc = "awaitWeather"], c1, FALSE)

\* a faulty getStationName that memoizes whatever name it returns
NameResolved_Memoizes(req, name, via, c) ==
    StartWeather([req EXCEPT !.stationName = name, !.nameVia = via],
                 CacheSet(c, StationNameKey(req.stationCode), name,
                          StationNameTTL, now))

\* getStationName returned name; the handler goes on to the weather
NameResolved(req, name, via, c) ==
    StartWeather([req EXCEPT !.stationName = name, !.nameVia = via], c)

\* a faulty fallback that names the station "?"
FallbackName_Unknown(stationCode) == <<"?">>

\* the fallback of getStationName's catch block
FallbackName(stationCode) == stationCode

\* a faulty getStationName that never looks in the cache
StartStationName_NoCache(req, c) ==
    Outcome([req EXCEPT !.pc = "awaitRegion"], c, FALSE)

\* getStationName(stationCode) up to its first upstream call
StartStationName(req, c) ==
    LET key == StationNameKey(req.stationCode)
        c1 == CacheAfterGet(c, key, now)
    IN  IF CacheHas(c, key, now) /\ c[key].v # <<>>
        THEN NameResolved(req, c[key].v, "cache", c1)
        ELSE Outcome([req EXCEPT !.pc = "awaitRegion"], c1, FALSE)

\* a faulty route that validates the limit before it checks the API key
OnRequest_ValidatesFirst(stationCode, limit, key, c) ==
    LET req == [IdleReq EXCEPT !.stationCode = stationCode, !.limit = limit,
                               !.key = key]
        maxResults == toInteger(limit)
        cacheKey == DeparturesKey(stationCode)
        c1 == CacheAfterGet(c, cacheKey, now)
    IN  IF isEmpty(stationCode)
        THEN Outcome(Respond(req, 400, "object",
                             [error |-> "Station code is required."]),
                     c, FALSE)
        ELSE IF LimitRejected(limit, maxResults)
        THEN Outcome(Respond(req, 400, "object",
                             [error |-> "Limit must be a positive number."]),
                     c, FALSE)
        ELSE IF ApiKeyRejected(env.API_KEY, key)
        THEN Outcome(Respond(req, 401, "object",
                             [error |-> "Invalid or missing API key."]),
                     c, FALSE)
        ELSE IF CacheHas(c, cacheKey, now)
        THEN Outcome(Respond([req EXCEPT !.hit = TRUE,
                                         !.cachedDepartures = c[cacheKey].v],
                             200, "object",
                             ResponseBody(c[cacheKey].v,
                                          c[cacheKey].v.departures,
                                          maxResults)),
                     c1, FALSE)
        ELSE Outcome([req EXCEPT !.pc = "awaitDepartures",
                                 !.sawExpired = cacheKey \in DOMAIN c],
                     c1, FALSE)

\* the handler from the arrival of a request to its first upstream call
OnRequest(stationCode, limit, key, c) ==
    LET req == [IdleReq EXCEPT !.stationCode = stationCode, !.limit = limit,
                               !.key = key]
        maxResults == toInteger(limit)
        cacheKey == DeparturesKey(stationCode)
        c1 == CacheAfterGet(c, cacheKey, now)
    IN  IF ApiKeyRejected(env.API_KEY, key)
        THEN Outcome(Respond(req, 401, "object",
                             [error |-> "Invalid or missing API key."]),
                     c, FALSE)
        ELSE IF isEmpty(stationCode)
        THEN Outcome(Respond(req, 400, "object",
                             [error |-> "Station code is required."]),
                     c, FALSE)
        ELSE IF LimitRejected(limit, maxResults)
        THEN Outcome(Respond(req, 400, "object",
                             [error |-> "Limit must be a positive number."]),
                     c, FALSE)
        ELSE IF CacheHas(c, cacheKey, now)
        THEN Outcome(Respond([req EXCEPT !.hit = TRUE,
                                         !.cachedDepartures = c[cacheKey].v],
                             200, "object",
                             ResponseBody(c[cacheKey].v,
                                          c[cacheKey].v.departures,
                                          maxResults)),
                     c1, FALSE)
        ELSE Outcome([req EXCEPT !.pc = "awaitDepartures",
                                 !.sawExpired = cacheKey \in DOMAIN c],
                     c1, FALSE)

\* a faulty handler that treats an answer that is no list as a failure
OnDepartures_NonArrayFails(req, answer, c) ==
    IF ~answer.ok
    THEN Fail500([req EXCEPT !.departuresVia = "rejected"], c)
    ELSE IF ~isArray(answer.data)
    THEN Fail500([req EXCEPT !.rawTrains = answer.data,
                             !.departuresVia = "nonarray"], c)
    ELSE IF MapThrows(answer.data.val)
    THEN Fail500([req EXCEPT !.rawTrains = answer.data,
                             !.departuresVia = "malformed"], c)
    ELSE StartStationName([req EXCEPT !.rawTrains = answer.data,
                                      !.departuresVia = "ok"], c)

\* the handler resumes with the answer of the departures call
OnDepartures(req, answer, c) ==
    IF ~answer.ok
    THEN Fail500([req EXCEPT !.departuresVia = "rejected"], c)
    ELSE IF ~isArray(answer.data)
    THEN Outcome(Respond([req EXCEPT !.rawTrains = answer.data,
                                     !.departuresVia = "nonarray"],
                         200, "array", [items |-> <<>>]),
                 c, FALSE)
    ELSE IF MapThrows(answer.data.val)
    THEN Fail500([req EXCEPT !.rawTrains = answer.data,
                             !.departuresVia = "malformed"], c)
    ELSE StartStationName([req EXCEPT !.rawTrains = answer.data,
                                      !.departuresVia = "ok"], c)

\* !region || (typeof region !== 'string' && typeof region !== 'number')
RegionInvalid(region) ==
    ~Truthy(region) \/ (region.type # "string" /\ region.type # "number")

\* getStationName resumes with the answer of the region call
OnRegion(req, answer, c) ==
    IF ~answer.ok \/ RegionInvalid(answer.data)
    THEN NameResolved(req, FallbackName(req.stationCode), "fallback", c)
    ELSE Outcome([req EXCEPT !.pc = "awaitDetails"], c, FALSE)

\* !stationName || typeof stationName !== 'string'
NameInvalid(stationName) ==
    ~Truthy(stationName) \/ stationName.type # "string"

\* getStationName resumes with the answer of the station-detail call
OnDetails(req, answer, c) ==
    IF ~answer.ok \/ NameInvalid(answer.data)
    THEN NameResolved(req, FallbackName(req.stationCode), "fallback", c)
    ELSE NameResolved(req, answer.data.val, "upstream",
                      CacheSet(c, StationNameKey(req.stationCode),
                               answer.data.val, StationNameTTL, now))

\* response.data.main or response.data.weather[0] is missing
WeatherThrows(data) == data.type # "weather"

\* a faulty getWeather that swallows its failure and returns no weather
OnWeather_Swallows(req, answer, c) ==
    IF ~answer.ok \/ WeatherThrows(answer.data)
    THEN Finish(req, NoWeather, "failed", c)
    ELSE LET weatherData ==
                 [temperature |-> formatTemperature(answer.data.val.temp),
                  description |-> answer.data.val.description]
         IN  Finish(req, weatherData, "upstream",
                    CacheSet(c, WeatherKey(Bologna), weatherData,
                             WeatherTTL, now))

\* getWeather resumes with the answer of the weather call
OnWeather(req, answer, c) ==
    IF ~answer.ok \/ WeatherThrows(answer.data)
    THEN Fail500([req EXCEPT !.weatherVia = "failed"], c)
    ELSE LET weatherData ==
                 [temperature |-> formatTemperature(answer.data.val.temp),
                  description |-> answer.data.val.description]
         IN  Finish(req, weatherData, "upstream",
                    CacheSet(c, WeatherKey(Bologna), weatherData,
                             WeatherTTL, now))

-----------------------------------------------------------------------------
(* The state machine *)

EmptyMap == [k \in {} |-> 0]

\* `sent` is the response sent in the last step, if one was (n = 1): the
\* request's record as it was when res.json ran, and whether its write of
\* the departures entry replaced a live entry of another value
NothingSent == [n |-> 0, req |-> IdleReq, raced |-> FALSE]

\* `lastAnswer` is the latest 200 answer, kept while it is less than 60 s
\* old: its station, instant and origin ("hit", "miss", or "degraded" for
\* the non-array answer)
NoAnswer == [n |-> 0, stationCode |-> <<>>, at |-> 0, via |-> "none"]

AnswerVia(req) ==
    IF req.hit THEN "hit" ELSE IF req.bodyKind = "array" THEN "degraded" ELSE "miss"

\* the entries of lastWrite that still have their departures entry in c
Written(lw, c) ==
    [s \in {x \in DOMAIN lw : DeparturesKey(x) \in DOMAIN c} |-> lw[s]]

\* One run of the handler takes effect.  A request that is answered frees
\* its slot.  lastWrite keeps, per departures entry, the locals of the
\* request that wrote it and the instant of the write.  (The outcome is
\* bound once, so that it is computed once per step.)
Apply(id, outcome) ==
  \E out \in {outcome} :
    LET key == DeparturesKey(out.req.stationCode)
        done == out.req.pc = "done"
        kept == Written(lastWrite, out.cache)
    IN  /\ reqs' = [reqs EXCEPT ![id] = IF done THEN IdleReq ELSE out.req]
        /\ cache' = out.cache
        /\ sent' = IF done
                   THEN [n |-> 1, req |-> out.req,
                         raced |-> /\ out.wrote
                                   /\ CacheHas(cache, key, now)
                                   /\ cache[key].v # out.cache[key].v]
                   ELSE NothingSent
        /\ lastAnswer' =
             IF done /\ out.req.status = 200
             THEN [n |-> 1, stationCode |-> out.req.stationCode, at |-> now,
                   via |-> AnswerVia(out.req)]
             ELSE lastAnswer
        /\ lastWrite' =
             IF out.wrote
             THEN [s \in DOMAIN kept \cup {out.req.stationCode} |->
                     IF s = out.req.stationCode
                     THEN [rawTrains |-> out.req.rawTrains.val,
                           stationName |-> out.req.stationName,
                           weather |-> out.req.body.weather, at |-> now]
                     ELSE kept[s]]
             ELSE kept
        /\ UNCHANGED <<env, now>>

Init ==
    /\ env \in EnvChoices
    /\ now = 0
    /\ cache = EmptyMap
    /\ reqs = [id \in ReqIds |-> IdleReq]
    /\ sent = NothingSent
    /\ lastAnswer = NoAnswer
    /\ lastWrite = EmptyMap

\* a request, drawn from the given queries, arrives in the first free
\* slot and runs to its answer or to its first upstream call
Receive(id, limits, keys) ==
    /\ reqs[id].pc = "idle"
    /\ \A other \in 1..(id - 1) : reqs[other].pc # "idle"
    /\ \E stationCode \in StationCodes, limit \in limits, key \in keys :
         Apply(id, OnRequest(stationCode, limit, key, cache))

\* a request for one of the given stations arrives, with the right key and
\* without a limit
ReceiveFor(id, stations) ==
    /\ reqs[id].pc = "idle"
    /\ \E stationCode \in stations :
         Apply(id, OnRequest(stationCode, Undefined, Str("secret"), cache))

DeparturesArrive(id) ==
    /\ reqs[id].pc = "awaitDepartures"
    /\ \E answer \in DeparturesAnswers : Apply(id, OnDepartures(reqs[id], answer, cache))

RegionArrive(id) ==
    /\ reqs[id].pc = "awaitRegion"
    /\ \E answer \in RegionAnswers : Apply(id, OnRegion(reqs[id], answer, cache))

DetailsArrive(id) ==
    /\ reqs[id].pc = "awaitDetails"
    /\ \E answer \in DetailsAnswers(reqs[id].stationCode) :
         Apply(id, OnDetails(reqs[id], answer, cache))

WeatherArrive(id) ==
    /\ reqs[id].pc = "awaitWeather"
    /\ \E answer \in WeatherAnswers : Apply(id, OnWeather(reqs[id], answer, cache))

\* the departures call resolves with one of the delay boards
DelayBoardArrives(id) ==
    /\ reqs[id].pc = "awaitDepartures"
    /\ \E q \in DelayBoards :
         Apply(id, OnDepartures(reqs[id], Resolved(Array(q)), cache))

\* node-cache's sweep (checkData) deletes every expired entry
Swept(c, t) == [k \in {x \in DOMAIN c : ~Expired(c[x], t)} |-> c[k]]

\* the clock advances to a later one of the given instants; the sweep runs
\* when a period of it has passed
Tick(instants) ==
    /\ \E t \in instants : t > now /\ now' = t
    /\ cache' = IF now' % (CheckPeriod * 1000) = 0 THEN Swept(cache, now')
                ELSE cache
    /\ lastWrite' = Written(lastWrite, cache')
    /\ sent' = NothingSent
    /\ lastAnswer' = IF lastAnswer.n = 1 /\ now' - lastAnswer.at >= DeparturesTTL * 1000
                     THEN NoAnswer ELSE lastAnswer
    /\ UNCHANGED <<env, reqs>>

\* the steps of the server with the requests of `ids` in flight
NextOver(ids, limits, keys, instants) ==
    \/ \E id \in ids : Receive(id, limits, keys)
    \/ \E id \in ids : DeparturesArrive(id)
    \/ \E id \in ids : RegionArrive(id)
    \/ \E id \in ids : DetailsArrive(id)
    \/ \E id \in ids : WeatherArrive(id)
    \/ Tick(instants)

\* one request at a time, with every query of the model
Next == NextOver({1}, LimitQueries, KeyQueries, Instants)

Spec == Init /\ [][Next]_vars

\* up to MaxReq requests in flight at once, each with the right key and
\* with no limit or limit=1, around the expiry of a departures entry
NextConcurrent ==
    NextOver(ReqIds, {Undefined, Str(<<"1">>)}, {Str("secret")},
             {t \in Instants : t <= DeparturesTTL * 1000 + 1})

InitConcurrent ==
    Init /\ env = [API_KEY |-> "secret", OPENWEATHER_API_KEY |-> "owkey"]

SpecConcurrent == InitConcurrent /\ [][NextConcurrent]_vars

-----------------------------------------------------------------------------
(* Properties *)

\* the request answered in the last step
Answered == sent.n = 1

\* an answer 200 with the response object (not the bare empty array)
AnsweredObject ==
    Answered /\ sent.req.status = 200 /\ sent.req.bodyKind = "object"

\* the number a limit query denotes, when it denotes a finite one
LimitValue(limit) == ParseNumber(limit.val).sign * ParseNumber(limit.val).int

\* the limit is given and is a finite number >= 1
ValidLimit(limit) ==
    /\ limit.type = "string"
    /\ ParseNumber(limit.val).kind = "finite"
    /\ LimitValue(limit) >= 1

NoLimit(limit) == limit.type = "undefined"

\* what a caller is due of a full list: its first entries up to the limit,
\* all of it without one
Due(list, limit) ==
    IF ValidLimit(limit)
    THEN SubSeq(list, 1, Min(LimitValue(limit), Len(list)))
    ELSE list

\* In Spec a step that leaves the clock alone and starts from the free slot
\* is the arrival of a request: ArrivedReq is that request after the step,
\* answered (sent') or waiting for the departures (reqs').
Arrival == reqs[1].pc = "idle" /\ now' = now /\ vars' # vars
ArrivedReq == IF sent'.n = 1 THEN sent'.req ELSE reqs'[1]

\* the request passed the API-key gate and the validation
Passed(req) == req.status # 401 /\ req.status # 400

(* C1 ---------------------------------------------------------------------*)

\* C1 as stated: a departures answer that is no array is answered 200 with
\* a body whose `departures` field is the empty list.
C1_Original ==
    (Answered /\ sent.req.departuresVia = "nonarray") =>
        /\ sent.req.status = 200
        /\ sent.req.bodyKind = "object"
        /\ "departures" \in DOMAIN sent.req.body
        /\ sent.req.body.departures = <<>>

\* C1, amended: a departures answer that is no array is answered 200 with
\* the bare empty array as its body (no `departures` field, no `time`), not
\* an error, and nothing is cached.
C1_NonArrayAnswersEmptyArray ==
    (Answered /\ sent.req.departuresVia = "nonarray") =>
        /\ sent.req.status = 200
        /\ sent.req.bodyKind = "array"
        /\ sent.req.body = [items |-> <<>>]
        /\ ~CacheHas(cache, DeparturesKey(sent.req.stationCode), now)

C1_Witness ==
    /\ Answered
    /\ sent.req.departuresVia = "nonarray"
    /\ sent.req.status = 200
    /\ sent.req.body = [items |-> <<>>]

(* C2 ---------------------------------------------------------------------*)

\* the second request is served from the cache entry the station's last
\* writer left: the non-time fields are the writer's, the list cut to the
\* second caller's limit
ServedFromCache(req) ==
    LET s == req.stationCode
    IN  /\ sent'.n = 1
        /\ req.hit
        /\ req.status = 200
        /\ req.bodyKind = "object"
        /\ s \in DOMAIN lastWrite
        /\ DOMAIN req.body = {"time", "stationName", "weather", "departures"}
        /\ req.body.stationName = lastWrite[s].stationName
        /\ req.body.weather = lastWrite[s].weather
        /\ req.body.departures =
             Due(simplify(lastWrite[s].rawTrains), req.limit)

\* a request for the station of the latest 200 answer arrives, less than
\* 60 s after that answer, and passes the gate and the validation
SecondArrives ==
    /\ Arrival
    /\ lastAnswer.n = 1
    /\ now - lastAnswer.at < 60000
    /\ ArrivedReq.stationCode = lastAnswer.stationCode
    /\ Passed(ArrivedReq)

\* C2 as stated: a request arriving less than 60 s after the previous
\* request for its station was answered 200 is served from the cache.
C2_Original == [][SecondArrives => ServedFromCache(ArrivedReq)]_vars

\* C2, amended: a request arriving less than 60 s after the previous
\* request for its station was answered 200 from an upstream list (the miss
\* path, which writes the entry) is served from the cache: its non-time
\* fields are those of that answer, the list cut to its own limit, and no
\* upstream is asked.
C2_SecondWithin60sOfFetchIsHit ==
    [][(SecondArrives /\ lastAnswer.via = "miss") =>
          /\ ServedFromCache(ArrivedReq)
          /\ lastWrite[lastAnswer.stationCode].at = lastAnswer.at]_vars

C2_Witness ==
    /\ Answered
    /\ sent.req.hit
    /\ sent.req.stationCode \in DOMAIN lastWrite
    /\ now - lastWrite[sent.req.stationCode].at = 59999
    /\ sent.req.limit = Str(<<"1">>)
    /\ Len(lastWrite[sent.req.stationCode].rawTrains) = 2
    /\ Len(sent.req.body.departures) = 1

(* C3 ---------------------------------------------------------------------*)

\* C3: the departures entry of a station holds the full formatted list of
\* the fetch that wrote it, and a 200 answer (hit or miss) to a caller with
\* limit L holds exactly the first min(L, K) entries of that K-entry list,
\* all K when no limit is given.
C3_TruncationNeverStored ==
    /\ \A s \in StationCodes :
         DeparturesKey(s) \in DOMAIN cache =>
            /\ s \in DOMAIN lastWrite
            /\ cache[DeparturesKey(s)].v.departures =
                 [i \in 1..Len(lastWrite[s].rawTrains) |->
                    formatTrain(lastWrite[s].rawTrains[i])]
    /\ (AnsweredObject /\ (NoLimit(sent.req.limit) \/ ValidLimit(sent.req.limit))) =>
          /\ sent.req.stationCode \in DOMAIN lastWrite
          /\ sent.req.body.departures =
               Due(simplify(lastWrite[sent.req.stationCode].rawTrains),
                   sent.req.limit)

C3_Witness ==
    /\ AnsweredObject
    /\ ~sent.req.hit
    /\ sent.req.limit = Str(<<"1">>)
    /\ Len(sent.req.body.departures) = 1
    /\ Len(cache[DeparturesKey(sent.req.stationCode)].v.departures) = 2

(* C4 ---------------------------------------------------------------------*)

GenericMessage ==
    [error |-> "Failed to fetch train data from the external API."]

\* C4 as stated: a failure of any upstream of the miss path (departures,
\* station name or weather: a rejection or a malformed payload) is answered
\* 500 with the generic message.  (The departures payload that is no list
\* is the case of C1 and is left out here.)
C4_Original ==
    (/\ Answered
     /\ \/ sent.req.departuresVia \in {"rejected", "malformed"}
        \/ sent.req.nameVia = "fallback"
        \/ sent.req.weatherVia \in {"failed", "nokey"}) =>
        /\ sent.req.status = 500
        /\ sent.req.body = GenericMessage

\* C4, amended: a failure of the departures fetch (a rejection, or a list
\* with a malformed record) or of the weather lookup (no key configured, a
\* rejection, a payload without the weather) is answered 500 with the
\* generic message.
C4_DeparturesOrWeatherFailureIs500 ==
    (/\ Answered
     /\ \/ sent.req.departuresVia \in {"rejected", "malformed"}
        \/ sent.req.weatherVia \in {"failed", "nokey"}) =>
        /\ sent.req.status = 500
        /\ sent.req.bodyKind = "object"
        /\ sent.req.body = GenericMessage
        /\ ~sent.req.hit

C4_Witness ==
    /\ Answered
    /\ sent.req.departuresVia = "ok"
    /\ sent.req.nameVia = "upstream"
    /\ sent.req.weatherVia = "failed"
    /\ sent.req.status = 500

(* C5 ---------------------------------------------------------------------*)

\* C5: when the station-name resolution fails and the departures fetch and
\* the weather lookup succeed, the request is answered 200 with stationName
\* equal to the raw station code.
C5_NameFailureFallsBackToCode ==
    (/\ Answered
     /\ sent.req.nameVia = "fallback"
     /\ sent.req.weatherVia \in {"cache", "upstream"}) =>
        /\ sent.req.departuresVia = "ok"
        /\ sent.req.status = 200
        /\ sent.req.bodyKind = "object"
        /\ sent.req.body.stationName = sent.req.stationCode

C5_Witness ==
    /\ AnsweredObject
    /\ sent.req.nameVia = "fallback"
    /\ sent.req.body.stationName = <<"S", "0", "1", "7", "0", "0">>

(* C6 ---------------------------------------------------------------------*)

\* C6: with an API key configured, a request is answered 401 exactly when
\* its key is missing or differs from the configured one, and no such
\* request gets further; with none configured no request is answered 401.
C6_ApiKeyGate ==
    /\ Answered =>
         (sent.req.status = 401 <=>
            (env.API_KEY # "" /\ sent.req.key # Str(env.API_KEY)))
    /\ \A id \in ReqIds :
         reqs[id].pc # "idle" =>
            (env.API_KEY = "" \/ reqs[id].key = Str(env.API_KEY))

C6_Witness ==
    /\ Answered
    /\ env.API_KEY = "secret"
    /\ sent.req.key = Str("wrong")
    /\ sent.req.status = 401

(* C7 ---------------------------------------------------------------------*)

\* C7 as stated: a request that passes the API-key gate with a limit that
\* is present but is not a finite number >= 1 is answered 400: it is never
\* answered otherwise and never gets as far as an upstream call.
C7_InvalidLimitIs400 ==
    /\ (/\ Answered
        /\ sent.req.status # 401
        /\ sent.req.limit.type = "string"
        /\ ~ValidLimit(sent.req.limit)) => sent.req.status = 400
    /\ \A id \in ReqIds :
         reqs[id].pc # "idle" =>
            (NoLimit(reqs[id].limit) \/ ValidLimit(reqs[id].limit))

(* C8 ---------------------------------------------------------------------*)

\* the payload a writer leaves in the cache
PayloadOf(write) ==
    [stationName |-> write.stationName, weather |-> write.weather,
     departures |-> [i \in 1..Len(write.rawTrains) |->
                       formatTrain(write.rawTrains[i])]]

\* C8: with requests for the same station in flight at once, each answer on
\* the miss path is built from the request's own fetch, and the departures
\* entry is at every moment exactly the payload of the latest write, whole,
\* with the TTL that write gave it.
C8_LastWriteWins ==
    /\ \A s \in StationCodes :
         DeparturesKey(s) \in DOMAIN cache =>
            /\ s \in DOMAIN lastWrite
            /\ cache[DeparturesKey(s)] =
                 [v |-> PayloadOf(lastWrite[s]),
                  t |-> lastWrite[s].at + 60000]
    /\ (AnsweredObject /\ ~sent.req.hit) =>
          /\ sent.req.departuresVia = "ok"
          /\ sent.req.body.stationName = sent.req.stationName
          /\ sent.req.body.departures =
               Due([i \in 1..Len(sent.req.rawTrains.val) |->
                      formatTrain(sent.req.rawTrains.val[i])],
                   sent.req.limit)
          /\ lastWrite[sent.req.stationCode] =
               [rawTrains |-> sent.req.rawTrains.val,
                stationName |-> sent.req.stationName,
                weather |-> sent.req.body.weather, at |-> now]

\* the second of two racing requests has just replaced the live entry the
\* first wrote with another payload
C8_Witness ==
    /\ AnsweredObject
    /\ ~sent.req.hit
    /\ sent.raced
    /\ cache[DeparturesKey(sent.req.stationCode)].v.departures
         = simplify(sent.req.rawTrains.val)

(* C9 ---------------------------------------------------------------------*)

\* a request that passes the gate and the validation arrives for a station
\* that has a departures entry, written EntryAge ms ago
ArrivesWithEntry ==
    /\ Arrival
    /\ Passed(ArrivedReq)
    /\ ArrivedReq.stationCode \in DOMAIN lastWrite

EntryAge == now - lastWrite[ArrivedReq.stationCode].at

\* the arrived request takes the miss path: it is not answered from the
\* cache, the dead entry is gone, and the departures are being fetched
TakesMissPath ==
    /\ sent'.n = 0
    /\ ~reqs'[1].hit
    /\ reqs'[1].pc = "awaitDepartures"
    /\ DeparturesKey(reqs'[1].stationCode) \notin DOMAIN cache'

\* a 200 answer on the miss path leaves a fresh entry with 60 s to live
FreshEntryOnSuccess ==
    (sent'.n = 1 /\ ~sent'.req.hit /\ sent'.req.status = 200
       /\ sent'.req.bodyKind = "object") =>
        /\ DeparturesKey(sent'.req.stationCode) \in DOMAIN cache'
        /\ cache'[DeparturesKey(sent'.req.stationCode)].t = now' + 60000
        /\ cache'[DeparturesKey(sent'.req.stationCode)].v.departures =
             simplify(sent'.req.rawTrains.val)

\* C9 as stated: a request arriving 60 s or more after the departures entry
\* of its station was written takes the miss path.
C9_Original ==
    [][(ArrivesWithEntry /\ EntryAge >= 60000) => TakesMissPath]_vars

\* C9, amended: a request arriving more than 60 s after the departures
\* entry of its station was written never serves that entry: it takes the
\* miss path, fetches again and, on success, replaces the entry with one
\* that has a fresh 60 s to live.  (At exactly 60 s the entry is served.)
C9_ExpiredEntryIsAbsent ==
    [][/\ (ArrivesWithEntry /\ EntryAge > 60000) => TakesMissPath
       /\ (ArrivesWithEntry /\ EntryAge = 60000) =>
             (sent'.n = 1 /\ sent'.req.hit)
       /\ FreshEntryOnSuccess]_vars

\* a request found the entry expired, fetched again and replaced it
C9_Witness ==
    /\ AnsweredObject
    /\ sent.req.sawExpired
    /\ ~sent.req.hit
    /\ cache[DeparturesKey(sent.req.stationCode)].t = now + 60000
    /\ now > 60000

(* C10 --------------------------------------------------------------------*)

\* C10: on the miss path with a well-formed list of K raw trains and the
\* station-name and weather lookups not failing, the answer is 200 and its
\* departures are the first min(K, limit) trains when a valid limit is
\* given, all K when none is, each formatted, in upstream order.
C10_MissPathLength ==
    (/\ Answered
     /\ ~sent.req.hit
     /\ sent.req.departuresVia = "ok"
     /\ sent.req.nameVia \in {"cache", "upstream"}
     /\ sent.req.weatherVia \in {"cache", "upstream"}
     /\ NoLimit(sent.req.limit) \/ ValidLimit(sent.req.limit)) =>
        LET rawTrains == sent.req.rawTrains.val
            K == Len(rawTrains)
            departures == sent.req.body.departures
        IN  /\ sent.req.status = 200
            /\ sent.req.bodyKind = "object"
            /\ Len(departures) =
                 IF NoLimit(sent.req.limit) THEN K
                 ELSE Min(K, LimitValue(sent.req.limit))
            /\ \A i \in 1..Len(departures) :
                 departures[i] = formatTrain(rawTrains[i])

C10_Witness ==
    /\ AnsweredObject
    /\ ~sent.req.hit
    /\ sent.req.nameVia = "upstream"
    /\ sent.req.weatherVia = "upstream"
    /\ Len(sent.req.rawTrains.val) = 2
    /\ sent.req.limit = Str(<<"1">>)
    /\ Len(sent.req.body.departures) = 1
    /\ sent.req.body.departures[1].delay = <<"+", "5">>

(* C11 --------------------------------------------------------------------*)

\* the formatter at work: one request at a time, without a limit, whose
\* departures call resolves with a delay board
NextFormat ==
    \/ Receive(1, {Undefined}, {Str("secret")})
    \/ DelayBoardArrives(1)
    \/ RegionArrive(1)
    \/ DetailsArrive(1)
    \/ WeatherArrive(1)
    \/ Tick({0, DeparturesTTL * 1000 + 1})

SpecFormat == InitConcurrent /\ [][NextFormat]_vars

\* text is the decimal text of ritardo with its sign: `+` and the digits of
\* a non-negative delay, `-` and the digits of a negative one, no leading
\* zero
IsSignedDecimalOf(text, ritardo) ==
    /\ Len(text) >= 2
    /\ (text[1] = "+") <=> (ritardo >= 0)
    /\ (text[1] = "-") <=> (ritardo < 0)
    /\ \A i \in 2..Len(text) : IsDigit(text[i])
    /\ Len(text) > 2 => text[2] # "0"
    /\ DigitsValue(SubSeq(text, 2, Len(text))) =
         IF ritardo >= 0 THEN ritardo ELSE -ritardo

\* C11: the `delay` of every formatted departure, in the cache and in a 200
\* answer, is the decimal text of the source delay with `+` before it
\* exactly when the delay is non-negative ("+0" for zero, "-2" for -2).
C11_DelayIsSignedDecimal ==
    /\ \A s \in DOMAIN lastWrite :
         LET departures == cache[DeparturesKey(s)].v.departures
         IN  /\ Len(departures) = Len(lastWrite[s].rawTrains)
             /\ \A i \in 1..Len(departures) :
                  IsSignedDecimalOf(departures[i].delay,
                                    lastWrite[s].rawTrains[i].ritardo)
    /\ AnsweredObject =>
         /\ Len(sent.req.body.departures) =
              Len(lastWrite[sent.req.stationCode].rawTrains)
         /\ \A i \in 1..Len(sent.req.body.departures) :
              IsSignedDecimalOf(
                  sent.req.body.departures[i].delay,
                  lastWrite[sent.req.stationCode].rawTrains[i].ritardo)

\* the board with the delays 5 and -2 was answered as "+5" and "-2"
C11_Witness ==
    /\ AnsweredObject
    /\ ~sent.req.hit
    /\ Len(sent.req.rawTrains.val) = 2
    /\ sent.req.rawTrains.val[1].ritardo = 5
    /\ sent.req.rawTrains.val[2].ritardo = -2
    /\ sent.req.body.departures[1].delay = <<"+", "5">>
    /\ sent.req.body.departures[2].delay = <<"-", "2">>

(* C12 --------------------------------------------------------------------*)

\* requests for two stations, one at a time
NextStations ==
    \/ ReceiveFor(1, TwoStations)
    \/ DeparturesArrive(1)
    \/ RegionArrive(1)
    \/ DetailsArrive(1)
    \/ WeatherArrive(1)
    \/ Tick(Instants)

SpecStations == InitConcurrent /\ [][NextStations]_vars

\* In a specification with one request at a time, a step that leaves the
\* clock alone while the request waits for the departures is the arrival of
\* the departures answer; ResumedReq is the request after the step.
DeparturesResume == reqs[1].pc = "awaitDepartures" /\ now' = now /\ vars' # vars
ResumedReq == IF sent'.n = 1 THEN sent'.req ELSE reqs'[1]

\* the entry of key is in the cache and was written less than ttl seconds ago
YoungerThan(key, ttl) ==
    /\ key \in DOMAIN cache
    /\ now - (cache[key].t - ttl * 1000) < ttl * 1000

\* C12: when the departures answer of a request on the miss path arrives
\* and the station-name entry of its station (younger than 86400 s) and the
\* weather entry (younger than 300 s) are in the cache, the request is
\* answered at once, with the cached name and weather and with no further
\* upstream call, and both entries are left as they are; the cache holds a
\* single weather entry, of the city, whichever station is served.
C12_NameAndWeatherMemoized ==
    [][/\ (/\ DeparturesResume
           /\ ResumedReq.departuresVia = "ok"
           /\ YoungerThan(StationNameKey(reqs[1].stationCode), 86400)
           /\ YoungerThan(WeatherKey(Bologna), 300)) =>
              LET nameKey == StationNameKey(reqs[1].stationCode)
                  weatherKey == WeatherKey(Bologna)
              IN  /\ sent'.n = 1
                  /\ sent'.req.status = 200
                  /\ sent'.req.nameVia = "cache"
                  /\ sent'.req.weatherVia = "cache"
                  /\ sent'.req.body.stationName = cache[nameKey].v
                  /\ sent'.req.body.weather = cache[weatherKey].v
                  /\ nameKey \in DOMAIN cache' /\ cache'[nameKey] = cache[nameKey]
                  /\ weatherKey \in DOMAIN cache'
                  /\ cache'[weatherKey] = cache[weatherKey]
       /\ DOMAIN cache' \subseteq
            {DeparturesKey(s) : s \in TwoStations}
              \cup {StationNameKey(s) : s \in TwoStations}
              \cup {WeatherKey(Bologna)}]_vars

\* the second station is served on the miss path, after its departures
\* entry expired, with the name and the weather from the cache, while the
\* first station has its entries too
C12_Witness ==
    /\ AnsweredObject
    /\ sent.req.stationCode = <<"S", "0", "5", "0", "4", "3">>
    /\ ~sent.req.hit
    /\ sent.req.sawExpired
    /\ sent.req.nameVia = "cache"
    /\ sent.req.weatherVia = "cache"
    /\ sent.req.body.stationName = <<"M", "O", "D", "E", "N", "A">>
    /\ DeparturesKey(<<"S", "0", "1", "7", "0", "0">>) \in DOMAIN cache
    /\ StationNameKey(<<"S", "0", "1", "7", "0", "0">>) \in DOMAIN cache

(* C13 --------------------------------------------------------------------*)

\* C13: a request that passes the gate and the validation while the
\* departures entry of its station is live is answered in the step of its
\* arrival, from that entry, with no upstream call (departures, station
\* name, weather), and leaves the whole cache as it was: the entry still
\* expires 60 s after the write that made it.
C13_HitTouchesNothing ==
    [][(/\ Arrival
        /\ Passed(ArrivedReq)
        /\ DeparturesKey(ArrivedReq.stationCode) \in DOMAIN cache
        /\ cache[DeparturesKey(ArrivedReq.stationCode)].t >= now) =>
           LET key == DeparturesKey(ArrivedReq.stationCode)
           IN  /\ sent'.n = 1
               /\ sent'.req.hit
               /\ sent'.req.status = 200
               /\ sent'.req.cachedDepartures = cache[key].v
               /\ sent'.req.departuresVia = "none"
               /\ sent'.req.nameVia = "none"
               /\ sent'.req.weatherVia = "none"
               /\ reqs'[1].pc = "idle"
               /\ cache' = cache
               /\ lastWrite' = lastWrite
               /\ cache'[key].t = lastWrite[ArrivedReq.stationCode].at + 60000]_vars

\* a hit in the last millisecond but one of the entry: its expiry is still
\* the one the write at 0 gave it
C13_Witness ==
    /\ Answered
    /\ sent.req.hit
    /\ now = 59999
    /\ cache[DeparturesKey(sent.req.stationCode)].t = 60000

(* C14 --------------------------------------------------------------------*)

\* the second of the day an "HH:mm:ss" text names
SecondOfDay(text) ==
    DigitsValue(SubSeq(text, 1, 2)) * 3600
      + DigitsValue(SubSeq(text, 4, 5)) * 60
      + DigitsValue(SubSeq(text, 7, 8))

\* the `time` of the 200 answer sent in this step is the Rome wall-clock
\* time of this step, and no departures entry holds a `time`
TimeIsFresh ==
    /\ (sent'.n = 1 /\ sent'.req.status = 200 /\ sent'.req.bodyKind = "object") =>
          LET time == sent'.req.body.time
          IN  /\ Len(time) = 8
              /\ time[3] = ":" /\ time[6] = ":"
              /\ \A i \in {1, 2, 4, 5, 7, 8} : IsDigit(time[i])
              /\ SecondOfDay(time) = ((now' + 3600000) \div 1000) % 86400
    /\ \A s \in StationCodes :
         DeparturesKey(s) \in DOMAIN cache' =>
            DOMAIN cache'[DeparturesKey(s)].v =
               {"stationName", "weather", "departures"}

\* a hit is answered in this step and the latest 200 answer before it was
\* a hit too
SecondHit ==
    /\ sent'.n = 1
    /\ sent'.req.hit
    /\ lastAnswer.n = 1
    /\ lastAnswer.via = "hit"
    /\ vars' # vars

EntryWritten(s) ==
    /\ DeparturesKey(s) \in DOMAIN cache'
    /\ \/ DeparturesKey(s) \notin DOMAIN cache
       \/ cache'[DeparturesKey(s)] # cache[DeparturesKey(s)]

\* the departures entry of station s is the same before and after the step
EntryUnchanged(s) ==
    /\ DeparturesKey(s) \in DOMAIN cache' <=> DeparturesKey(s) \in DOMAIN cache
    /\ DeparturesKey(s) \in DOMAIN cache =>
         cache'[DeparturesKey(s)] = cache[DeparturesKey(s)]

\* C15: a departures entry is written only in the step that answers a
\* request for its station 200 from a well-formed upstream list; the step
\* that answers 400, 401, 500 or the empty array of the degraded path
\* leaves every departures entry as it was; and an entry only ever
\* disappears once it has expired.
C15_OnlySuccessWritesDepartures ==
    [][/\ \A s \in StationCodes :
            EntryWritten(s) =>
               /\ sent'.n = 1
               /\ sent'.req.stationCode = s
               /\ sent'.req.status = 200
               /\ sent'.req.bodyKind = "object"
               /\ sent'.req.departuresVia = "ok"
               /\ ~sent'.req.hit
       /\ (/\ sent'.n = 1
           /\ vars' # vars
           /\ \/ sent'.req.status \in {400, 401, 500}
              \/ sent'.req.bodyKind = "array") =>
              \A s \in StationCodes : EntryUnchanged(s)
       /\ \A s \in StationCodes :
            (DeparturesKey(s) \in DOMAIN cache
               /\ DeparturesKey(s) \notin DOMAIN cache') =>
                 cache[DeparturesKey(s)].t < now']_vars

\* a request fails on the weather after it wrote the station name: the
\* name entry is there, written at this instant, and no departures entry
C15_Witness ==
    /\ Answered
    /\ sent.req.status = 500
    /\ sent.req.nameVia = "upstream"
    /\ sent.req.weatherVia = "failed"
    /\ StationNameKey(sent.req.stationCode) \in DOMAIN cache
    /\ cache[StationNameKey(sent.req.stationCode)].t = now + 86400000
    /\ DeparturesKey(sent.req.stationCode) \notin DOMAIN cache

(* C16 --------------------------------------------------------------------*)

\* the station-name entry of station s is written in this step
NameWritten(s) ==
    /\ StationNameKey(s) \in DOMAIN cache'
    /\ \/ StationNameKey(s) \notin DOMAIN cache
       \/ cache'[StationNameKey(s)] # cache[StationNameKey(s)]

\* the request in slot 1 is inside getStationName, waiting for an upstream
ResolvingName == reqs[1].pc \in {"awaitRegion", "awaitDetails"}

\* C16: every value stored under a station-name key is the name the
\* upstream station-detail call returned, written in the step that call
\* resolved; a resolution that falls back to the station code stores
\* nothing, so the next miss with a well-formed list asks the upstream
\* again; a hit serves the fallback name only from a departures entry, at
\* most 60 s old.
C16_FallbackNeverMemoized ==
    [][/\ \A s \in StationCodes :
            StationNameKey(s) \in DOMAIN cache' =>
               /\ cache'[StationNameKey(s)].v = NomeLungo(s)
               /\ cache'[StationNameKey(s)].v # s
       /\ \A s \in StationCodes :
            NameWritten(s) =>
               /\ reqs[1].pc = "awaitDetails"
               /\ reqs[1].stationCode = s
               /\ ResumedReq.nameVia = "upstream"
               /\ ResumedReq.stationName = NomeLungo(s)
       /\ (ResolvingName /\ now' = now /\ ResumedReq.nameVia = "fallback") =>
             /\ ResumedReq.stationName = reqs[1].stationCode
             /\ StationNameKey(reqs[1].stationCode) \notin DOMAIN cache'
       /\ (/\ DeparturesResume
           /\ ResumedReq.departuresVia = "ok"
           /\ StationNameKey(reqs[1].stationCode) \notin DOMAIN cache) =>
              /\ sent'.n = 0
              /\ reqs'[1].pc = "awaitRegion"
       /\ (sent'.n = 1 /\ sent'.req.hit
             /\ sent'.req.body.stationName = sent'.req.stationCode) =>
              /\ now' - lastWrite'[sent'.req.stationCode].at <= 60000
              /\ lastWrite'[sent'.req.stationCode].stationName =
                   sent'.req.stationCode]_vars

\* a hit serves the fallback name from the departures entry while the
\* station-name cache has no entry for the station
C16_Witness ==
    /\ Answered
    /\ sent.req.hit
    /\ sent.req.body.stationName = sent.req.stationCode
    /\ StationNameKey(sent.req.stationCode) \notin DOMAIN cache
    /\ now > lastWrite[sent.req.stationCode].at

(* C17 --------------------------------------------------------------------*)

\* C17: with an API key configured, a request whose key is missing or
\* wrong is answered 401 in the step of its arrival, whatever its limit and
\* whatever the cache holds, and the step changes nothing else: the cache
\* is as it was (not even an expired entry is removed, as a read would),
\* and no upstream call is pending.
C17_GateRunsFirst ==
    [][(/\ Arrival
        /\ env.API_KEY # ""
        /\ ArrivedReq.key # Str(env.API_KEY)) =>
           /\ sent'.n = 1
           /\ sent'.req.status = 401
           /\ sent'.req.body = [error |-> "Invalid or missing API key."]
           /\ ~sent'.req.hit
           /\ ~sent'.req.sawExpired
           /\ sent'.req.departuresVia = "none"
           /\ sent'.req.nameVia = "none"
           /\ sent'.req.weatherVia = "none"
           /\ cache' = cache
           /\ lastWrite' = lastWrite
           /\ lastAnswer' = lastAnswer
           /\ reqs' = reqs]_vars

\* a request with a wrong key and limit=0 is answered 401 while the
\* departures entry of its station is live
C17_Witness ==
    /\ Answered
    /\ sent.req.status = 401
    /\ sent.req.key = Str("wrong")
    /\ sent.req.limit = Str(<<"0">>)
    /\ CacheHas(cache, DeparturesKey(sent.req.stationCode), now)

(* C18 --------------------------------------------------------------------*)

\* every upstream call a request issues eventually resolves or rejects
UpstreamsAnswer ==
    \A id \in ReqIds :
        /\ WF_vars(DeparturesArrive(id))
        /\ WF_vars(RegionArrive(id))
        /\ WF_vars(DetailsArrive(id))
        /\ WF_vars(WeatherArrive(id))

\* up to MaxReq requests in flight at once, without a limit, before and
\* after the expiry of a departures entry
NextLive ==
    NextOver(ReqIds, {Undefined}, {Str("secret")},
             {0, DeparturesTTL * 1000 + 1})

SpecLive == InitConcurrent /\ [][NextLive]_vars /\ UpstreamsAnswer

Statuses == {200, 400, 401, 500}

\* the request of slot id is answered in this step
AnsweredNow(id) == reqs[id].pc # "idle" /\ reqs'[id].pc = "idle"

\* C18: with every upstream call eventually answered, every request in
\* flight is eventually answered, whatever happens to the others; a request
\* leaves its slot only by the one response of that step, for its station,
\* with a status in {200, 400, 401, 500}, and the other requests in flight
\* are left as they are.
C18_EveryRequestAnsweredOnce ==
    /\ \A id \in ReqIds : (reqs[id].pc # "idle") ~> (reqs[id].pc = "idle")
    /\ [](sent.n = 1 => (sent.req.pc = "done" /\ sent.req.status \in Statuses))
    /\ [][\A id \in ReqIds :
            AnsweredNow(id) =>
               /\ sent'.n = 1
               /\ sent'.req.stationCode = reqs[id].stationCode
               /\ sent'.req.limit = reqs[id].limit
               /\ sent'.req.status \in Statuses
               /\ \A other \in ReqIds \ {id} : reqs'[other] = reqs[other]]_vars

\* one request has just failed with 500 while another is still in flight
C18_Witness ==
    /\ Answered
    /\ sent.req.status = 500
    /\ \E id \in ReqIds : reqs[id].pc = "awaitWeather"

=============================================================================
